---- MODULE Spec2Model ----
(***************************************************************************)
(* A model of MolIO.py: the SDF and DLG record parsers, the streaming      *)
(* parse_sdf generator and the batch operations built on it (count_sdf,    *)
(* split_sdf, sample_sdf, merge_sdf) and the DLG -> SDF conversion through *)
(* the external converter.                                                 *)
(*                                                                         *)
(* A text is a sequence of lines; a line is its content without the line   *)
(* terminator (every line of a modelled text ends in a newline).  Scores   *)
(* are held in tenths (-9.1 is -91).                                       *)
(***************************************************************************)
EXTENDS Integers, Sequences, FiniteSets, TLC

VARIABLES
    op,        \* the operation the behaviour runs
    pc,        \* the position inside that operation
    file,      \* the input text: a sequence of lines (a sequence of files for merge_sdf)
    arg,       \* the operation's remaining arguments, a record
    lines,     \* parse_sdf: the line buffer
    pos,       \* number of lines / records consumed so far
    items,     \* the records buffered by the running operation
    idx,       \* split_sdf: the shard index
    end,       \* split_sdf, file-count mode: the record number that flushes the next shard
    out,       \* what the operation has produced so far (records yielded, shards, output file)
    fds,       \* DLG.sdf: the descriptors and file handles that are open
    tmp        \* DLG.sdf: the temporary files that exist

vars == <<op, pc, file, arg, lines, pos, items, idx, end, out, fds, tmp>>

None == "None"

(***************************************************************************)
(* Bounds of the model.                                                    *)
(***************************************************************************)
MaxRecords == 3      \* `$$$$`-terminated chunks in an input file
MaxFiles == 2        \* input files of merge_sdf
MaxSplit == 3        \* largest files= / records= argument of split_sdf
MaxBlocks == 2       \* property blocks of a single record text
MaxDlgLines == 2     \* lines of a DLG record text

(***************************************************************************)
(* Lines.                                                                  *)
(***************************************************************************)
MEND == "M  END"
TERM == "$$$$"

\* str.strip() / str.rstrip() on the lines of the model: the only lines that
\* carry surrounding whitespace are the ones listed here.
Strip(l) ==
    CASE l = "M  END  " -> "M  END"
      [] l = "r2  "     -> "r2"
      [] l = "$$$$ "    -> "$$$$"
      [] l = " -7.3"    -> "-7.3"
      [] OTHER          -> l

\* A score is <<v>>, v in tenths; an unset score (Python's None) is <<>>.
NoScore == <<>>

\* float(text): NoScore where float() raises ValueError.
Float(l) ==
    CASE l = "-10.0" -> <<-100>>
      [] l = "-9.1"  -> <<-91>>
      [] l = "-9.10" -> <<-91>>
      [] l = "-8.0"  -> <<-80>>
      [] l = "-7.3"  -> <<-73>>
      [] OTHER       -> NoScore

\* f'{self.score}': the text Python prints for a float.
Fmt(x) ==
    CASE x = <<-100>> -> "-10.0"
      [] x = <<-91>>  -> "-9.1"
      [] x = <<-80>>  -> "-8.0"
      [] x = <<-73>>  -> "-7.3"
      [] OTHER        -> "None"

\* line.startswith('ENERGY') and 'LOWER_BOUND' in line
IsEnergy(l) == l \in {"ENERGY LOWER_BOUND = -9.1 kcal", "ENERGY LOWER_BOUND", "ENERGY LOWER_BOUND = n/a"}

\* float(line.split('=')[1].lstrip().split()[0]) inside the try: NoScore on any exception
EnergyScore(l) ==
    CASE l = "ENERGY LOWER_BOUND = -9.1 kcal" -> <<-91>>
      [] OTHER -> NoScore

\* line.startswith('>') and '<score>' in line
IsScoreMarker(l) == l \in {"> <score>", ">  <score>"}

\* a line that opens a property block: line.startswith('>')
IsMarker(l) == l \in {"> <score>", ">  <score>", "> <foo>", "> <bar>"}

(***************************************************************************)
(* SDF.parse                                                               *)
(***************************************************************************)
\* The molecule block: lines[1:] up to and including the first `M  END` line.
RECURSIVE MolOf(_)
MolOf(rest) ==
    IF rest = <<>> THEN <<>>
    ELSE IF Strip(Head(rest)) = MEND THEN <<Head(rest)>>
    ELSE <<Head(rest)>> \o MolOf(Tail(rest))

\* The loop over lines[i + 2:]: the last assignment to score wins; reading the
\* line after a `<score>` marker that is the last line raises IndexError.
RECURSIVE ScanScore(_, _, _)
ScanScore(region, j, score) ==
    IF j > Len(region) THEN [raised |-> FALSE, score |-> score]
    ELSE IF IsEnergy(region[j]) THEN ScanScore(region, j + 1, EnergyScore(region[j]))
    ELSE IF IsScoreMarker(region[j]) THEN
        IF j + 1 > Len(region) THEN [raised |-> TRUE, score |-> NoScore]
        ELSE ScanScore(region, j + 1, Float(Strip(region[j + 1])))
    ELSE ScanScore(region, j + 1, score)

\* After the molecule loop i is the index of the last line appended (0 when
\* lines[1:] is empty), so lines[i + 2:] starts one line after the block.
ScoreRegion(s) ==
    LET k == Len(MolOf(Tail(s)))
        from == IF k = 0 THEN 2 ELSE k + 2
    IN  SubSeq(s, from, Len(s))

SDFparse(s) ==
    IF s = <<>> THEN [raised |-> FALSE, score |-> NoScore, title |-> "", mol |-> <<>>]
    ELSE LET sc == ScanScore(ScoreRegion(s), 1, NoScore)
         IN  [raised |-> sc.raised, score |-> sc.score,
              title |-> Strip(s[1]), mol |-> MolOf(Tail(s))]

\* SDF(s): the record object; raised marks that the constructor raised.
SDF(s) == [s |-> s] @@ SDFparse(s)

(***************************************************************************)
(* SDF.sdf                                                                 *)
(***************************************************************************)
\* The text SDF.sdf(output=None, title=title) returns, as lines.
SDFsdf(r, title) ==
    IF r.mol # <<>> THEN
        <<(IF title # "" THEN title ELSE r.title)>> \o r.mol
          \o (IF r.score # NoScore THEN <<"", "> <score>", Fmt(r.score)>> ELSE <<>>)
          \o <<"", TERM>>
    ELSE <<"">>

(***************************************************************************)
(* Input files.  A file is a run of `$$$$`-terminated chunks followed by   *)
(* what is left after the last terminator.                                 *)
(***************************************************************************)
RECURSIVE Concat(_)
Concat(ss) == IF ss = <<>> THEN <<>> ELSE Head(ss) \o Concat(Tail(ss))

SeqsUpTo(S, n) == UNION {[1..k -> S] : k \in 0..n}

\* Well-formed records: a title line, a molecule block ending in `M  END`,
\* property blocks, the terminator.
WellFormedChunks ==
    { <<"r1", "atom", MEND, "> <score>", "-9.1", "", TERM>>,
      <<"r2  ", "atom", "atom", "M  END  ", "> <foo>", "bar", "", "$$$$ ">> }

\* Records whose molecule block was deleted: the title line and the
\* terminator are left, or the terminator alone.
DeletedMolChunks == { <<"r3", TERM>>, <<TERM>> }

FileChunks == WellFormedChunks \cup DeletedMolChunks

\* What may follow the last terminator: nothing, blank lines, a record with
\* no terminator, a record cut right after its `> <score>` marker.
BlankTails == { <<>>, <<"">>, <<"", "">> }

FileTails ==
    BlankTails \cup { <<"r4", "atom", MEND>>, <<"r5", "atom", MEND, "> <score>">> }

FileInputs ==
    { [chunks |-> cs, tail |-> t] : cs \in SeqsUpTo(FileChunks, MaxRecords), t \in FileTails }

TextOf(in) == Concat(in.chunks) \o in.tail

(***************************************************************************)
(* parse_sdf                                                               *)
(***************************************************************************)
\* The buffers parse_sdf hands to SDF(), in order: one per terminator line,
\* and the buffer left at end of stream, which is yielded unconditionally.
RECURSIVE Buffers(_, _)
Buffers(f, buf) ==
    IF f = <<>> THEN <<buf>>
    ELSE IF Strip(Head(f)) = TERM THEN <<Append(buf, Head(f))>> \o Buffers(Tail(f), <<>>)
    ELSE Buffers(Tail(f), Append(buf, Head(f)))

\* The records the generator yields for a file; a record with raised = TRUE
\* marks the point where SDF() raised and the generator died.
ParseSdf(f) == LET b == Buffers(f, <<>>) IN [i \in 1..Len(b) |-> SDF(b[i])]

Raises(S) == \E i \in 1..Len(S) : S[i].raised

\* The generator, one line at a time (lines 156-161).
ParseSdfLine ==
    /\ op = "parse_sdf" /\ pc = "loop"
    /\ pos < Len(file)
    /\ LET line == file[pos + 1]
           buf == Append(lines, line)
       IN  IF Strip(line) = TERM
           THEN /\ out' = Append(out, SDF(buf))
                /\ lines' = <<>>
                /\ pc' = IF SDF(buf).raised THEN "raised" ELSE "loop"
           ELSE /\ lines' = buf
                /\ UNCHANGED <<out, pc>>
    /\ pos' = pos + 1
    /\ UNCHANGED <<op, file, arg, items, idx, end, fds, tmp>>

\* A parse_sdf that yields the remaining buffer only when it holds a line.
ParseSdfEndIfLines ==
    /\ op = "parse_sdf" /\ pc = "loop"
    /\ pos = Len(file)
    /\ out' = IF lines # <<>> THEN Append(out, SDF(lines)) ELSE out
    /\ pc' = IF lines # <<>> /\ SDF(lines).raised THEN "raised" ELSE "done"
    /\ UNCHANGED <<op, file, arg, lines, pos, items, idx, end, fds, tmp>>

\* End of stream (line 162): the remaining buffer is yielded, empty or not.
ParseSdfEnd ==
    /\ op = "parse_sdf" /\ pc = "loop"
    /\ pos = Len(file)
    /\ out' = Append(out, SDF(lines))
    /\ pc' = IF SDF(lines).raised THEN "raised" ELSE "done"
    /\ UNCHANGED <<op, file, arg, lines, pos, items, idx, end, fds, tmp>>

(***************************************************************************)
(* count_sdf                                                               *)
(***************************************************************************)
RECURSIVE CountMol(_)
CountMol(S) ==
    IF S = <<>> THEN 0
    ELSE (IF Head(S).mol # <<>> THEN 1 ELSE 0) + CountMol(Tail(S))

\* sum(1 for m in parse_sdf(sdf) if m.mol); defined when no SDF() raises.
count_sdf(f) == CountMol(ParseSdf(f))

CountSdf ==
    /\ op = "count_sdf" /\ pc = "start"
    /\ IF Raises(ParseSdf(file))
       THEN pc' = "raised" /\ out' = out
       ELSE pc' = "done" /\ out' = count_sdf(file)
    /\ UNCHANGED <<op, file, arg, lines, pos, items, idx, end, fds, tmp>>

InitParse ==
    /\ op \in {"parse_sdf", "count_sdf"}
    /\ arg \in FileInputs
    /\ file = TextOf(arg)
    /\ pc = IF op = "parse_sdf" THEN "loop" ELSE "start"
    /\ out = IF op = "parse_sdf" THEN <<>> ELSE None
    /\ lines = <<>> /\ pos = 0 /\ items = <<>> /\ idx = 0 /\ end = 0
    /\ fds = {} /\ tmp = {}

NextParse == ParseSdfLine \/ ParseSdfEnd \/ CountSdf

SpecParse == InitParse /\ [][NextParse]_vars

(***************************************************************************)
(* write(records, output=...)                                              *)
(***************************************************************************)
\* One output file.  SDF defines neither __bool__ nor __len__, so `if record`
\* holds for every record and each one is written.  A written file is kept
\* as the stream positions of its records, in the order written.
write(records, name) == [name |-> name, recs |-> records]

\* items[:-1]
DropLast(s) == IF s = <<>> THEN <<>> ELSE SubSeq(s, 1, Len(s) - 1)

(***************************************************************************)
(* split_sdf                                                               *)
(***************************************************************************)
\* The stream the running operation iterates.
Stream == ParseSdf(file)

\* num, remains = divmod(n, files); if remains: num += 1
ShardSize(n, files) == (n \div files) + (IF n % files # 0 THEN 1 ELSE 0)

\* files mode, lines 221-226: the counting pass and the loop's initial state.
SplitFilesCount ==
    /\ op = "split_files" /\ pc = "start"
    /\ IF Raises(Stream)
       THEN pc' = "raised" /\ UNCHANGED <<idx, end>>
       ELSE /\ pc' = "loop"
            /\ idx' = 1
            /\ end' = ShardSize(count_sdf(file), arg.files)
    /\ UNCHANGED <<op, file, arg, lines, pos, items, out, fds, tmp>>

\* files mode, lines 227-234: one iteration of the loop; i = pos + 1.
SplitFilesItem ==
    /\ op = "split_files" /\ pc = "loop"
    /\ pos < Len(Stream)
    /\ pos' = pos + 1
    /\ LET i == pos + 1
           buf == Append(items, i)
           num == ShardSize(count_sdf(file), arg.files)
       IN  IF i = end
           THEN /\ end' = end + num
                /\ out' = Append(out, write(buf, idx))
                /\ idx' = idx + 1
                /\ items' = <<>>
           ELSE /\ items' = buf
                /\ UNCHANGED <<end, out, idx>>
    /\ UNCHANGED <<op, pc, file, arg, lines, fds, tmp>>

\* files mode, lines 235-237: what is left after the loop.
SplitFilesTail ==
    /\ op = "split_files" /\ pc = "loop"
    /\ pos = Len(Stream)
    /\ out' = IF DropLast(items) # <<>> THEN Append(out, write(DropLast(items), idx)) ELSE out
    /\ pc' = "done"
    /\ UNCHANGED <<op, file, arg, lines, pos, items, idx, end, fds, tmp>>

\* records mode, lines 240-247: one iteration of the loop; i = pos.
SplitRecordsItem ==
    /\ op = "split_records" /\ pc = "loop"
    /\ pos < Len(Stream)
    /\ pos' = pos + 1
    /\ IF Stream[pos + 1].raised
       THEN pc' = "raised" /\ UNCHANGED <<items, idx, out>>
       ELSE LET i == pos
                buf == Append(items, pos + 1)
            IN  /\ idx' = i \div arg.records
                /\ pc' = pc
                /\ IF i % arg.records = arg.records - 1
                   THEN /\ out' = Append(out, write(buf, idx' + 1))
                        /\ items' = <<>>
                   ELSE /\ items' = buf
                        /\ out' = out
    /\ UNCHANGED <<op, file, arg, lines, end, fds, tmp>>

\* records mode, lines 248-250.
SplitRecordsTail ==
    /\ op = "split_records" /\ pc = "loop"
    /\ pos = Len(Stream)
    /\ out' = IF DropLast(items) # <<>> THEN Append(out, write(DropLast(items), idx + 1)) ELSE out
    /\ pc' = "done"
    /\ UNCHANGED <<op, file, arg, lines, pos, items, idx, end, fds, tmp>>

InitSplit ==
    /\ op \in {"split_files", "split_records"}
    /\ \E in \in FileInputs, k \in 1..MaxSplit :
          /\ file = TextOf(in)
          /\ arg = IF op = "split_files"
                   THEN [chunks |-> in.chunks, tail |-> in.tail, files |-> k]
                   ELSE [chunks |-> in.chunks, tail |-> in.tail, records |-> k]
    /\ pc = IF op = "split_files" THEN "start" ELSE "loop"
    /\ out = <<>>
    /\ lines = <<>> /\ pos = 0 /\ items = <<>> /\ idx = 0 /\ end = 0
    /\ fds = {} /\ tmp = {}

NextSplit ==
    \/ SplitFilesCount \/ SplitFilesItem \/ SplitFilesTail
    \/ SplitRecordsItem \/ SplitRecordsTail

SpecSplit == InitSplit /\ [][NextSplit]_vars

(***************************************************************************)
(* sample_sdf                                                              *)
(***************************************************************************)
\* Lines 260-272: the counting pass and the checks on n and p.  arg.n is 0
\* when n was not given, arg.p is the percentage (0 when not given).
SampleCount ==
    /\ op = "sample_sdf" /\ pc = "start"
    /\ IF Raises(Stream)
       THEN pc' = "raised" /\ UNCHANGED arg
       ELSE LET total == count_sdf(file)
                n == IF arg.n # 0 THEN arg.n ELSE (total * arg.p) \div 100
            IN  IF arg.n = 0 /\ arg.p = 0
                THEN pc' = "ValueError" /\ UNCHANGED arg
                ELSE IF n <= total
                THEN pc' = "draw" /\ arg' = [arg EXCEPT !.n = n, !.total = total]
                ELSE pc' = "ValueError" /\ UNCHANGED arg
    /\ UNCHANGED <<op, file, lines, pos, items, idx, end, out, fds, tmp>>

\* Lines 275-276: random.sample(range(total), n), any n distinct indices.
SampleDraw ==
    /\ op = "sample_sdf" /\ pc = "draw"
    /\ \E indices \in SUBSET (0..(arg.total - 1)) :
          /\ Cardinality(indices) = arg.n
          /\ arg' = [arg EXCEPT !.indices = indices]
    /\ pc' = "scan"
    /\ UNCHANGED <<op, file, lines, pos, items, idx, end, out, fds, tmp>>

\* Lines 277-279: one iteration of the selection loop; i = pos.
SampleScan ==
    /\ op = "sample_sdf" /\ pc = "scan"
    /\ pos < Len(Stream)
    /\ items' = IF pos \in arg.indices THEN Append(items, pos + 1) ELSE items
    /\ pos' = pos + 1
    /\ UNCHANGED <<op, pc, file, arg, lines, idx, end, out, fds, tmp>>

\* s.sdf() for s in ss if s.mol
RECURSIVE WithMol(_, _)
WithMol(S, ss) ==
    IF ss = <<>> THEN <<>>
    ELSE (IF S[Head(ss)].mol # <<>> THEN <<Head(ss)>> ELSE <<>>) \o WithMol(S, Tail(ss))

\* Lines 282-284: the selected records that have a molecule block are written.
SampleWrite ==
    /\ op = "sample_sdf" /\ pc = "scan"
    /\ pos = Len(Stream)
    /\ out' = WithMol(Stream, items)
    /\ pc' = "done"
    /\ UNCHANGED <<op, file, arg, lines, pos, items, idx, end, fds, tmp>>

InitSample ==
    /\ op = "sample_sdf"
    /\ \E in \in FileInputs, n \in 0..(MaxRecords + 1), p \in {0, 50} :
          /\ file = TextOf(in)
          /\ arg = [chunks |-> in.chunks, tail |-> in.tail, n |-> n, p |-> p,
                    total |-> 0, indices |-> {}]
    /\ pc = "start"
    /\ out = <<>>
    /\ lines = <<>> /\ pos = 0 /\ items = <<>> /\ idx = 0 /\ end = 0
    /\ fds = {} /\ tmp = {}

NextSample == SampleCount \/ SampleDraw \/ SampleScan \/ SampleWrite

SpecSample == InitSample /\ [][NextSample]_vars

(***************************************************************************)
(* merge_sdf                                                               *)
(***************************************************************************)
\* Records of the merged files: the score comes from a `> <score>` block,
\* from an ENERGY line, from a marker with extra blanks, or is missing.
MergeChunks ==
    { <<"m1", "atom", MEND, "> <score>", "-10.0", "", TERM>>,
      <<"m2", "atom", MEND, "ENERGY LOWER_BOUND = -9.1 kcal", TERM>>,
      <<"m3", "atom", MEND, "> <score>", "-8.0", "", TERM>>,
      <<"m4", "atom", MEND, ">  <score>", " -7.3", "", TERM>>,
      <<"m5", "atom", MEND, "> <score>", "bar", "", TERM>> }

\* The lists of at most MaxFiles files that hold at most MaxRecords records
\* between them: the records in order, and the positions where one file ends
\* and the next begins (a file may be empty).
Cuts(n) ==
    { c \in UNION {[1..k -> 0..n] : k \in 0..(MaxFiles - 1)} :
        \A i \in 1..Len(c) : i > 1 => c[i - 1] <= c[i] }

MergeInputs ==
    UNION { { [chunks |-> cs, cut |-> b] : b \in Cuts(Len(cs)) } :
            cs \in SeqsUpTo(MergeChunks, MaxRecords) }

FilesOf(in) ==
    LET n == Len(in.chunks)
        k == Len(in.cut) + 1
        lo(j) == IF j = 1 THEN 0 ELSE in.cut[j - 1]
        hi(j) == IF j = k THEN n ELSE in.cut[j]
    IN  [j \in 1..k |-> Concat(SubSeq(in.chunks, lo(j) + 1, hi(j)))]

\* A filter that lets a score equal to the ceiling through.
RetainedInclusive(s, max_score) == s.score # NoScore /\ s.score[1] <= max_score

\* line 317: the filter
Retained(s, max_score) == s.score # NoScore /\ s.score[1] < max_score

\* sorted(items, key=score, reverse=r): a stable insertion; with reverse
\* set, equal keys keep their input order too.
RECURSIVE Sorted(_, _)
Sorted(xs, reverse) ==
    IF xs = <<>> THEN <<>>
    ELSE LET rest == Sorted(DropLast(xs), reverse)
             x == xs[Len(xs)]
             before(y) == IF reverse THEN y.score[1] >= x.score[1] ELSE y.score[1] <= x.score[1]
             k == Cardinality({i \in 1..Len(rest) : before(rest[i])})
         IN  SubSeq(rest, 1, k) \o <<x>> \o SubSeq(rest, k + 1, Len(rest))

\* line 323: reverse=False if sort == 'descending' else True
SortReverse(sort) == IF sort = "descending" THEN FALSE ELSE TRUE

\* Lines 314-318: the records of one input file are parsed and filtered.
MergeFile ==
    /\ op = "merge_sdf" /\ pc = "parse"
    /\ pos < Len(file)
    /\ LET S == ParseSdf(file[pos + 1])
       IN  IF Raises(S)
           THEN pc' = "raised" /\ items' = items
           ELSE /\ pc' = pc
                /\ items' = items \o SelectSeq(S, LAMBDA s : Retained(s, arg.max_score))
    /\ pos' = pos + 1
    /\ UNCHANGED <<op, file, arg, lines, idx, end, out, fds, tmp>>

\* Lines 320-324.
MergeSort ==
    /\ op = "merge_sdf" /\ pc = "parse"
    /\ pos = Len(file)
    /\ items' = IF arg.sort # None THEN Sorted(items, SortReverse(arg.sort)) ELSE items
    /\ pc' = "write"
    /\ UNCHANGED <<op, file, arg, lines, pos, idx, end, out, fds, tmp>>

\* Line 326: write(items, output); each record is written as record.sdf().
MergeWrite ==
    /\ op = "merge_sdf" /\ pc = "write"
    /\ out' = [i \in 1..Len(items) |-> SDFsdf(items[i], "")]
    /\ pc' = "done"
    /\ UNCHANGED <<op, file, arg, lines, pos, items, idx, end, fds, tmp>>

InitMerge ==
    /\ op = "merge_sdf"
    /\ \E in \in MergeInputs, sort \in {None, "ascending", "descending"}, m \in {-80, 0} :
          /\ file = FilesOf(in)
          /\ arg = [chunks |-> in.chunks, cut |-> in.cut, sort |-> sort, max_score |-> m]
    /\ pc = "parse"
    /\ out = <<>>
    /\ lines = <<>> /\ pos = 0 /\ items = <<>> /\ idx = 0 /\ end = 0
    /\ fds = {} /\ tmp = {}

NextMerge == MergeFile \/ MergeSort \/ MergeWrite

SpecMerge == InitMerge /\ [][NextMerge]_vars

(***************************************************************************)
(* Single SDF record texts: SDF.parse and the parse / sdf round trip       *)
(***************************************************************************)
\* Property blocks: a `> key` line, the value, a blank line.
PropertyBlocks ==
    { <<"> <score>", "-9.1", "">>,
      <<"> <score>", "-9.10", "">>,
      <<">  <score>", " -7.3", "">>,
      <<"> <score>", "bar", "">>,
      <<"> <foo>", "bar", "">>,
      <<"> <bar>", "-8.0", "">> }

\* What else may follow the molecule block: energy lines, a marker with no
\* value line.
OtherBlocks ==
    { <<"ENERGY LOWER_BOUND = -9.1 kcal">>, <<"ENERGY LOWER_BOUND">>,
      <<"ENERGY LOWER_BOUND = n/a">>, <<"> <score>">> }

RecordInputs ==
    { [title |-> t, mol |-> m, blocks |-> bs, term |-> e] :
        t \in {"r1", "r2  "},
        m \in { <<"atom", MEND>>, <<"atom", "atom", "M  END  ">>, <<>> },
        bs \in SeqsUpTo(PropertyBlocks \cup OtherBlocks, MaxBlocks),
        e \in { <<TERM>>, <<>> } }

RecordText(in) == <<in.title>> \o in.mol \o Concat(in.blocks) \o in.term

\* The property set of a record text: the `> key` lines that follow the
\* molecule block, each with the lines up to the next `>` line, the
\* terminator left out.  The key is the text after `>` and the blanks.
PropertyKey(l) ==
    CASE l \in {"> <score>", ">  <score>"} -> "<score>"
      [] l = "> <foo>" -> "<foo>"
      [] l = "> <bar>" -> "<bar>"
      [] OTHER -> l

RECURSIVE Segments(_, _)
Segments(region, acc) ==
    IF region = <<>> THEN acc
    ELSE IF IsMarker(Head(region))
    THEN Segments(Tail(region), Append(acc, <<PropertyKey(Head(region)), <<>>>>))
    ELSE IF acc = <<>> THEN Segments(Tail(region), acc)
    ELSE Segments(Tail(region),
             [acc EXCEPT ![Len(acc)] = <<@[1], Append(@[2], Head(region))>>])

PropsOf(s) ==
    IF s = <<>> THEN <<>>
    ELSE LET k == Len(MolOf(Tail(s)))
             last == IF Strip(s[Len(s)]) = TERM THEN Len(s) - 1 ELSE Len(s)
         IN  Segments(SubSeq(s, k + 2, last), <<>>)

\* SDF(s), line 27.
ParseRecord ==
    /\ op = "SDF" /\ pc = "start"
    /\ out' = SDF(file)
    /\ pc' = IF SDF(file).raised THEN "raised" ELSE "done"
    /\ UNCHANGED <<op, file, arg, lines, pos, items, idx, end, fds, tmp>>

\* SDF(SDF(s).sdf()): parse, serialize with no override, parse again.
RoundTrip ==
    /\ op = "roundtrip" /\ pc = "start"
    /\ LET first == SDF(file)
       IN  IF first.raised
           THEN pc' = "raised" /\ out' = out
           ELSE /\ pc' = "done"
                /\ out' = [first |-> first, text |-> SDFsdf(first, ""),
                           second |-> SDF(SDFsdf(first, ""))]
    /\ UNCHANGED <<op, file, arg, lines, pos, items, idx, end, fds, tmp>>

(***************************************************************************)
(* DLG.parse                                                               *)
(***************************************************************************)
\* A DLG line: whether it starts with 'DOCKED: ', and the blank-separated
\* tokens of what follows the prefix (of the whole line when there is none).
FreeEnergy == "Estimated Free Energy of Binding"

DlgLines ==
    { [prefix |-> TRUE, toks |-> <<"ATOM", "1", "C">>],
      [prefix |-> TRUE, toks |-> <<"ENDROOT">>],
      [prefix |-> TRUE, toks |-> <<>>],
      [prefix |-> TRUE, toks |-> <<"USER", FreeEnergy, "=", "-9.1", "kcal/mol">>],
      [prefix |-> TRUE, toks |-> <<"USER", FreeEnergy, "=", "n/a">>],
      [prefix |-> TRUE, toks |-> <<"USER", FreeEnergy>>],
      [prefix |-> TRUE, toks |-> <<"REMARK", "Name", "=", "lig1">>],
      [prefix |-> TRUE, toks |-> <<"REMARK", "Name", "=">>],
      [prefix |-> TRUE, toks |-> <<"USER", "x">>],
      [prefix |-> FALSE, toks |-> <<"ATOM", "9", "N">>] }

Has(toks, t) == \E i \in 1..Len(toks) : toks[i] = t

\* the tokens after the first "="; <<>> when there is no "=" or nothing after it
AfterEq(toks) ==
    IF ~Has(toks, "=") THEN <<>>
    ELSE LET i == CHOOSE j \in 1..Len(toks) : toks[j] = "=" /\ \A h \in 1..(j - 1) : toks[h] # "="
         IN  SubSeq(toks, i + 1, Len(toks))

AtomKinds == {"ATOM", "ROOT", "ENDROOT", "BRANCH", "ENDBRANCH"}

\* 'REMARK Name =' in line
IsNameLine(toks) ==
    \E i \in 1..(Len(toks) - 2) : toks[i] = "REMARK" /\ toks[i + 1] = "Name" /\ toks[i + 2] = "="

\* One iteration of the loop of DLG.parse (lines 94-105) on record state r.
DlgLine(r, line) ==
    IF r.raised \/ ~line.prefix THEN r
    ELSE IF line.toks = <<>> THEN [r EXCEPT !.raised = TRUE]
    ELSE IF line.toks[1] \in AtomKinds THEN [r EXCEPT !.atom = Append(@, line.toks)]
    ELSE IF Has(line.toks, FreeEnergy)
    THEN (IF AfterEq(line.toks) # <<>> /\ Float(AfterEq(line.toks)[1]) # NoScore
          THEN [r EXCEPT !.score = Float(AfterEq(line.toks)[1])]
          ELSE r)
    ELSE IF IsNameLine(line.toks)
    THEN (IF AfterEq(line.toks) = <<>>
          THEN [r EXCEPT !.raised = TRUE]
          ELSE [r EXCEPT !.title = AfterEq(line.toks)[1]])   \* names of the model are one token
    ELSE r

RECURSIVE DlgScan(_, _)
DlgScan(r, s) == IF s = <<>> THEN r ELSE DlgScan(DlgLine(r, Head(s)), Tail(s))

DLGparse(s) == DlgScan([raised |-> FALSE, score |-> NoScore, title |-> "", atom |-> <<>>], s)

\* DLG(s), line 88.
ParseDlgRecord ==
    /\ op = "DLG" /\ pc = "start"
    /\ out' = DLGparse(file)
    /\ pc' = IF DLGparse(file).raised THEN "raised" ELSE "done"
    /\ UNCHANGED <<op, file, arg, lines, pos, items, idx, end, fds, tmp>>

InitRecord ==
    /\ op \in {"SDF", "roundtrip", "DLG"}
    /\ IF op = "DLG"
       THEN /\ file \in SeqsUpTo(DlgLines, MaxDlgLines)
            /\ arg = <<>>
       ELSE /\ arg \in RecordInputs
            /\ file = RecordText(arg)
    /\ pc = "start"
    /\ out = <<>>
    /\ lines = <<>> /\ pos = 0 /\ items = <<>> /\ idx = 0 /\ end = 0
    /\ fds = {} /\ tmp = {}

NextRecord == ParseRecord \/ RoundTrip \/ ParseDlgRecord

SpecRecord == InitRecord /\ [][NextRecord]_vars

(***************************************************************************)
(* DLG.pdbqt and DLG.sdf: the conversion through the external converter    *)
(***************************************************************************)
\* The record converted is out; arg holds the call's arguments (output,
\* title), the result and whether an exception is propagating.  fds is the
\* set of open descriptors and file objects, tmp the temporary files that
\* exist.

\* Line 124: tempfile.mkstemp returns an open descriptor and the path; the
\* descriptor is bound to `_` and never used again.
Mkstemp1 ==
    /\ op = "DLG.sdf" /\ pc = "mkstemp1"
    /\ fds' = fds \cup {"fd:pdbqt"}
    /\ tmp' = tmp \cup {"pdbqt"}
    /\ pc' = "mkstemp2"
    /\ UNCHANGED <<op, file, arg, lines, pos, items, idx, end, out>>

\* Line 125.
Mkstemp2 ==
    /\ op = "DLG.sdf" /\ pc = "mkstemp2"
    /\ fds' = fds \cup {"fd:_sdf"}
    /\ tmp' = tmp \cup {"_sdf"}
    /\ pc' = "pdbqt"
    /\ UNCHANGED <<op, file, arg, lines, pos, items, idx, end, out>>

\* Line 127, DLG.pdbqt(output=pdbqt): with atoms the temporary file is
\* opened for writing (lines 110-115), without atoms nothing is written.
PdbqtOpen ==
    /\ op = "DLG.sdf" /\ pc = "pdbqt"
    /\ IF out.atom # <<>>
       THEN fds' = fds \cup {"w:pdbqt"} /\ pc' = "pdbqt_write"
       ELSE fds' = fds /\ pc' = "run"
    /\ UNCHANGED <<op, file, arg, lines, pos, items, idx, end, out, tmp>>

\* Lines 116-117: the text is written and the `with` block is left.
PdbqtWrite ==
    /\ op = "DLG.sdf" /\ pc = "pdbqt_write"
    /\ fds' = fds \ {"w:pdbqt"}
    /\ pc' = "run"
    /\ UNCHANGED <<op, file, arg, lines, pos, items, idx, end, out, tmp>>

\* Lines 128-131: the converter succeeds, returns non-zero, or raises.
RunConverter ==
    /\ op = "DLG.sdf" /\ pc = "run"
    /\ \E outcome \in {"ok", "nonzero", "raise"} :
          CASE outcome = "ok" -> pc' = "open_sdf" /\ arg' = arg
            [] outcome = "nonzero" -> pc' = "finally" /\ arg' = [arg EXCEPT !.result = ""]
            [] outcome = "raise" -> pc' = "finally" /\ arg' = [arg EXCEPT !.exc = TRUE]
    /\ UNCHANGED <<op, file, lines, pos, items, idx, end, out, fds, tmp>>

\* Line 133: with open(_sdf) as f
OpenSdf ==
    /\ op = "DLG.sdf" /\ pc = "open_sdf"
    /\ fds' = fds \cup {"r:_sdf"}
    /\ pc' = IF arg.output # "" THEN "open_out" ELSE "join"
    /\ UNCHANGED <<op, file, arg, lines, pos, items, idx, end, out, tmp>>

\* Line 138: with open(output, 'w') as o
OpenOutput ==
    /\ op = "DLG.sdf" /\ pc = "open_out"
    /\ fds' = fds \cup {"w:output"}
    /\ pc' = "writelines"
    /\ UNCHANGED <<op, file, arg, lines, pos, items, idx, end, out, tmp>>

\* Lines 139-140: the lines are written, the inner `with` is left.
WriteLines ==
    /\ op = "DLG.sdf" /\ pc = "writelines"
    /\ fds' = fds \ {"w:output"}
    /\ arg' = [arg EXCEPT !.result = arg.output]
    /\ pc' = "close_sdf"
    /\ UNCHANGED <<op, file, lines, pos, items, idx, end, out, tmp>>

\* Line 142: return ''.join(lines)
JoinLines ==
    /\ op = "DLG.sdf" /\ pc = "join"
    /\ arg' = [arg EXCEPT !.result = "sdf text"]
    /\ pc' = "close_sdf"
    /\ UNCHANGED <<op, file, lines, pos, items, idx, end, out, fds, tmp>>

\* Leaving the `with open(_sdf)` block on return.
CloseSdf ==
    /\ op = "DLG.sdf" /\ pc = "close_sdf"
    /\ fds' = fds \ {"r:_sdf"}
    /\ pc' = "finally"
    /\ UNCHANGED <<op, file, arg, lines, pos, items, idx, end, out, tmp>>

\* Lines 143-145: both temporary files are unlinked; then the call ends.
Finally ==
    /\ op = "DLG.sdf" /\ pc = "finally"
    /\ tmp' = (tmp \ {"pdbqt"}) \ {"_sdf"}
    /\ pc' = "done"
    /\ UNCHANGED <<op, file, arg, lines, pos, items, idx, end, out, fds>>

InitDlgSdf ==
    /\ op = "DLG.sdf"
    /\ file \in {s \in SeqsUpTo(DlgLines, MaxDlgLines) : ~DLGparse(s).raised}
    /\ out = DLGparse(file)
    /\ \E output \in {"", "out.sdf"}, title \in {"", "t"} :
          arg = [output |-> output, title |-> title, result |-> None, exc |-> FALSE]
    /\ pc = "mkstemp1"
    /\ lines = <<>> /\ pos = 0 /\ items = <<>> /\ idx = 0 /\ end = 0
    /\ fds = {} /\ tmp = {}

NextDlgSdf ==
    \/ Mkstemp1 \/ Mkstemp2 \/ PdbqtOpen \/ PdbqtWrite \/ RunConverter
    \/ OpenSdf \/ OpenOutput \/ WriteLines \/ JoinLines \/ CloseSdf \/ Finally

SpecDlgSdf == InitDlgSdf /\ [][NextDlgSdf]_vars

(***************************************************************************)
(* The properties checked.                                                 *)
(***************************************************************************)
WellFormedFile(in) ==
    /\ in.tail = <<>>
    /\ \A i \in 1..Len(in.chunks) : in.chunks[i] \in WellFormedChunks

\* The inputs the split and sample properties are stated for: well-formed
\* records, empty-molecule records (a terminator line alone) between them,
\* and possibly a last record that has no terminator.
PlainFile(in) ==
    /\ in.tail \in { <<>>, <<"r4", "atom", MEND>> }
    /\ \A i \in 1..Len(in.chunks) : in.chunks[i] \in WellFormedChunks \cup { <<TERM>> }

NumTerm(f) == Cardinality({i \in 1..Len(f) : Strip(f[i]) = TERM})

\* C1 (as claimed): split_sdf with files=F writes every record that has a
\* molecule block to exactly one shard, so the shards hold count_sdf(input)
\* such records between them, and it writes at most F shards.
ShardMols(shard) == Cardinality({j \in 1..Len(shard.recs) : Stream[shard.recs[j]].mol # <<>>})

RECURSIVE SumMols(_)
SumMols(shards) == IF shards = <<>> THEN 0 ELSE ShardMols(Head(shards)) + SumMols(Tail(shards))

C1_SplitFilesKeepsAll ==
    (op = "split_files" /\ pc = "done" /\ PlainFile(arg)) =>
        /\ SumMols(out) = count_sdf(file)
        /\ Len(out) <= arg.files

\* C2 (as claimed): parse_sdf on K well-formed terminated records yields
\* exactly K records, in source order.
C2_YieldsExactlyK ==
    (op = "parse_sdf" /\ pc = "done" /\ WellFormedFile(arg)) =>
        /\ Len(out) = Len(arg.chunks)
        /\ \A i \in 1..Len(arg.chunks) : out[i].s = arg.chunks[i]

\* C2 (amended): parse_sdf on K well-formed terminated records yields K + 1
\* records: the K records in source order, each with its molecule block, then
\* one record built from the empty remaining buffer; on any stream the
\* remaining buffer is yielded at end of stream whether or not it is empty,
\* one record per terminator line before it, and no line is lost.
C2_YieldsKPlusTrailing ==
    (op = "parse_sdf" /\ pc = "done") =>
        /\ Len(out) = NumTerm(file) + 1
        /\ Concat([i \in 1..Len(out) |-> out[i].s]) = file
        /\ out[Len(out)].s = arg.tail
        /\ WellFormedFile(arg) =>
              /\ Len(out) = Len(arg.chunks) + 1
              /\ \A i \in 1..Len(arg.chunks) :
                    out[i].s = arg.chunks[i] /\ out[i].mol # <<>>
              /\ out[Len(out)].s = <<>> /\ out[Len(out)].mol = <<>>

\* C2 witness: a stream of at least two well-formed records has been parsed
\* to its end and the trailing record was yielded after them.
C2_Witness ==
    /\ op = "parse_sdf" /\ pc = "done" /\ WellFormedFile(arg)
    /\ Len(arg.chunks) >= 2
    /\ Len(out) = Len(arg.chunks) + 1

\* C3 (as claimed): parsing one record never raises, for SDF and for DLG
\* record texts.
C3_ParseNeverRaises == (op \in {"SDF", "DLG"}) => pc # "raised"

\* C4 (as claimed): with sort='ascending' the scores written by merge_sdf
\* are non-decreasing, with sort='descending' non-increasing.
WrittenScore(i) == SDF(out[i]).score[1]

C4_SortMatchesDirection ==
    (op = "merge_sdf" /\ pc = "done") =>
        /\ arg.sort = "ascending" =>
              \A i \in 1..(Len(out) - 1) : WrittenScore(i) <= WrittenScore(i + 1)
        /\ arg.sort = "descending" =>
              \A i \in 1..(Len(out) - 1) : WrittenScore(i) >= WrittenScore(i + 1)

\* C5 (as claimed): for a valid record text T, parsing T, serializing with
\* sdf() and parsing again gives the molecule block and the property set
\* (keys and values, in order) of T.
ValidRecord(in) ==
    /\ in.mol # <<>>
    /\ in.term = <<TERM>>
    /\ \A i \in 1..Len(in.blocks) : in.blocks[i] \in PropertyBlocks

\* Two value blocks are the same when their lines are, a number standing
\* for every spelling of it ("-9.10" and "-9.1").
SameLine(l) == IF Float(Strip(l)) # NoScore THEN Fmt(Float(Strip(l))) ELSE l

SameProps(ps) ==
    [i \in 1..Len(ps) |-> <<ps[i][1], [j \in 1..Len(ps[i][2]) |-> SameLine(ps[i][2][j])]>>]

C5_RoundTripKeepsProperties ==
    (op = "roundtrip" /\ pc = "done" /\ ValidRecord(arg)) =>
        /\ out.second.mol = out.first.mol
        /\ SameProps(PropsOf(out.second.s)) = SameProps(PropsOf(out.first.s))

\* C6 (as claimed): sample_sdf with 1 <= n <= total writes at most n records,
\* each from a distinct source index, and fewer than n only if a drawn index
\* maps to an empty trailing record of the stream.
EmptyTrailing(k) == \A j \in k..Len(Stream) : Stream[j].mol = <<>>

C6_SampleSize ==
    (op = "sample_sdf" /\ pc = "done" /\ arg.n >= 1 /\ PlainFile(arg)) =>
        /\ Len(out) <= arg.n
        /\ \A i, j \in 1..Len(out) : i # j => out[i] # out[j]
        /\ Len(out) < arg.n => \E i \in arg.indices : EmptyTrailing(i + 1)

\* C7 (as claimed): split_sdf with records=R writes every record that has a
\* molecule block to exactly one shard, in source order, and every shard
\* but the last holds exactly R of them.
WithMolPositions == SelectSeq([i \in 1..Len(Stream) |-> i], LAMBDA i : Stream[i].mol # <<>>)

C7_SplitRecordsPartitions ==
    (op = "split_records" /\ pc = "done" /\ PlainFile(arg)) =>
        /\ WithMol(Stream, Concat([k \in 1..Len(out) |-> out[k].recs])) = WithMolPositions
        /\ \A k \in 1..(Len(out) - 1) : ShardMols(out[k]) = arg.records

\* C8 (as claimed): count_sdf returns K for K well-formed records whatever
\* blank remainder follows the last terminator, and K - 1 once the molecule
\* block of one of the K records is deleted.
DeletedAt(in) == {i \in 1..Len(in.chunks) : in.chunks[i] \in DeletedMolChunks}

C8_CountsMoleculeBlocks ==
    (op = "count_sdf" /\ pc = "done" /\ arg.tail \in BlankTails) =>
        /\ DeletedAt(arg) = {} => out = Len(arg.chunks)
        /\ Cardinality(DeletedAt(arg)) = 1 => out = Len(arg.chunks) - 1

\* C9: every record merge_sdf writes carries a score, and that score is
\* strictly below max_score, with and without a sort direction.
C9_MergeFilter ==
    (op = "merge_sdf" /\ pc = "done") =>
        \A i \in 1..Len(out) :
            /\ SDF(out[i]).score # NoScore
            /\ SDF(out[i]).score[1] < arg.max_score
            /\ \E k \in 1..Len(arg.chunks) :
                  SDF(arg.chunks[k]).mol = SDF(out[i]).mol
                  /\ SDF(arg.chunks[k]).score = SDF(out[i]).score

\* C9 witness: a sorted merge has written some records and dropped others.
C9_Witness ==
    /\ op = "merge_sdf" /\ pc = "done" /\ arg.sort # None
    /\ Len(out) >= 2
    /\ Len(out) < Len(arg.chunks)
    /\ \E k \in 1..Len(arg.chunks) : SDF(arg.chunks[k]).score = <<arg.max_score>>

\* C10 (as claimed): when DLG.sdf ends, both temporary files are removed
\* and every descriptor and file object it opened is closed.
C10_NothingLeftBehind ==
    (op = "DLG.sdf" /\ pc = "done") => (fds = {} /\ tmp = {})

====
